---- MODULE Spec2Model ----
(***************************************************************************)
(* Route linear referencing and tiling engine of highway-pilot-em.         *)
(*                                                                         *)
(* Numbers.  Python floats are modelled by exact rationals <<n, d>> with   *)
(* d > 0 in lowest terms; where every value of a computation is an         *)
(* integer (the frame tiler on integer routes) plain integers are used.    *)
(* Points and vectors are pairs <<x, y>>.  Text is a sequence of one       *)
(* character strings.  Distances that the code compares are compared by    *)
(* their squares, the square root being strictly monotonic.                *)
(***************************************************************************)
EXTENDS Integers, Sequences, FiniteSets, TLC

VARIABLES
    \* ---- AutoPlotter.calculate_frames (dxf_handler.py) ----
    route,          \* the dxf_handler.RouteCalculator handed to calculate_frames
    model_width,    \* viewport_width * scale / 1000
    overlap,        \* self.overlap, in tenths (1 is the code's 0.1)
    start_PK,       \* the start_PK argument
    current_dist,   \* local of calculate_frames
    frame_idx,      \* local of calculate_frames
    frames,         \* local of calculate_frames, the list returned
    pc,             \* position of the running operation
    \* ---- route calculators: construction and queries ----
    kind,           \* which calculator class is under construction
    entity,         \* the entity given to the constructor
    calc,           \* the constructed calculator object
    answer,         \* result of the last query
    \* ---- DeviceLayoutEngine.extract_and_project_devices ----
    engine,         \* the DeviceLayoutEngine: its route and bridge_ranges
    inserts,        \* msp.query('INSERT'), in document order
    target_block_names, \* the allow-list argument
    devices,        \* the value returned, or the exception raised
    \* ---- DeviceLayoutEngine.find_best_viewport_rotation ----
    layouts,        \* self.doc.layouts: the layouts and their entities
    target,         \* the arguments x, y
    rotation,       \* the value returned
    \* ---- FrameAutoNumberer (frame_numbering.py) ----
    doc,            \* the INSERT entities of the modelspace, in document order
    x_restrict,     \* argument of renumber_and_save
    y_tolerance,    \* argument of renumber_and_save
    sorted_entities, \* local of renumber_and_save: entities as positions in doc
    count,          \* the value returned
    saved,          \* whether doc.saveas succeeded
    \* ---- chainage labels: formatting and parsing ----
    station_m,      \* argument of _format_m_to_station
    label,          \* the label it returned
    pk_text,        \* argument of the two parsers
    parse_result    \* what each parser returned or raised

vars == <<route, model_width, overlap, start_PK, current_dist, frame_idx,
          frames, pc, kind, entity, calc, answer,
          engine, inserts, target_block_names, devices,
          layouts, target, rotation,
          doc, x_restrict, y_tolerance, sorted_entities, count, saved,
          station_m, label, pk_text, parse_result>>

frameVars == <<route, model_width, overlap, start_PK, current_dist,
               frame_idx, frames>>
calcVars == <<kind, entity, calc, answer>>
deviceVars == <<engine, inserts, target_block_names, devices>>
viewportVars == <<layouts, target, rotation>>
numberVars == <<doc, x_restrict, y_tolerance, sorted_entities, count, saved>>
chainageVars == <<station_m, label, pk_text, parse_result>>
\* the variables of the operations modelled further below
laterVars == <<viewportVars, numberVars, chainageVars>>

-----------------------------------------------------------------------------
(* Arithmetic helpers *)

Abs(n) == IF n < 0 THEN -n ELSE n

Max(a, b) == IF a >= b THEN a ELSE b

Min(a, b) == IF a <= b THEN a ELSE b

RECURSIVE GCD(_, _)
GCD(a, b) == IF b = 0 THEN a ELSE GCD(b, a % b)

\* the rational n/d (d # 0) in lowest terms with a positive denominator
Rat(n, d) ==
    LET g == GCD(Abs(n), Abs(d))
        s == IF d < 0 THEN -1 ELSE 1
    IN  <<(s * n) \div g, (s * d) \div g>>

RatInt(n) == <<n, 1>>

RatAdd(a, b) == Rat(a[1] * b[2] + b[1] * a[2], a[2] * b[2])

RatSub(a, b) == Rat(a[1] * b[2] - b[1] * a[2], a[2] * b[2])

RatMul(a, b) == Rat(a[1] * b[1], a[2] * b[2])

RatLT(a, b) == a[1] * b[2] < b[1] * a[2]

RatLE(a, b) == a[1] * b[2] <= b[1] * a[2]

\* max(0.0, min(1.0, t))
Clamp01(t) == IF RatLT(t, RatInt(0)) THEN RatInt(0)
              ELSE IF RatLT(RatInt(1), t) THEN RatInt(1) ELSE t

IsSquare(n) == \E k \in 0..n : k * k = n

ISqrt(n) == CHOOSE k \in 0..n : k * k = n

\* ties go up
round_mutant(n, d) == IF 2 * (n % d) < d THEN n \div d ELSE n \div d + 1

\* Python's round(): nearest integer of n/d (d > 0), ties to the even one
RoundHalfEven(n, d) ==
    LET q == n \div d
        r == n % d
    IN  IF 2 * r < d THEN q
        ELSE IF 2 * r > d THEN q + 1
        ELSE IF q % 2 = 0 THEN q ELSE q + 1

-----------------------------------------------------------------------------
(* Vec2 / Vec3 of ezdxf.math, as the source uses them *)

VSub(p, q) == <<p[1] - q[1], p[2] - q[2]>>

Dot(u, v) == u[1] * v[1] + u[2] * v[2]

Cross(u, v) == u[1] * v[2] - u[2] * v[1]

LenSq(v) == v[1] * v[1] + v[2] * v[2]

\* Vec.distance on points whose distance is an integer
Distance(p, q) == ISqrt(LenSq(VSub(q, p)))

\* Vec.angle = atan2(y, x).  The angle is represented by the primitive
\* integer vector pointing that way; atan2(0, 0) = 0 is the angle of <<1, 0>>.
Angle(v) ==
    IF v = <<0, 0>> THEN <<1, 0>>
    ELSE LET g == GCD(Abs(v[1]), Abs(v[2])) IN <<v[1] \div g, v[2] \div g>>

\* a Python list index: i >= 0 counts from the front, i < 0 from the back
PyIndexOK(s, i) == -Len(s) <= i /\ i < Len(s)

PyIndex(s, i) == IF i >= 0 THEN s[i + 1] ELSE s[Len(s) + i + 1]

-----------------------------------------------------------------------------
(* Text *)

Digits == <<"0", "1", "2", "3", "4", "5", "6", "7", "8", "9">>

IsDigit(c) == \E i \in 1..10 : Digits[i] = c

DigitVal(c) == (CHOOSE i \in 1..10 : Digits[i] = c) - 1

LowerLetters == <<"k", "x", "t", "u", "n", "o", "i", "l", "e">>

UpperLetters == <<"K", "X", "T", "U", "N", "O", "I", "L", "E">>

\* str.upper() on the alphabet of the model
Upper(s) ==
    [i \in 1..Len(s) |->
        IF \E j \in 1..Len(LowerLetters) : LowerLetters[j] = s[i]
        THEN UpperLetters[CHOOSE j \in 1..Len(LowerLetters) : LowerLetters[j] = s[i]]
        ELSE s[i]]

\* str.replace(c, '')
Remove(s, c) == SelectSeq(s, LAMBDA ch : ch # c)

RECURSIVE Strip(_)
\* str.strip() as int() and float() apply it to their argument
Strip(s) ==
    IF s = <<>> THEN s
    ELSE IF Head(s) = " " THEN Strip(Tail(s))
    ELSE IF s[Len(s)] = " " THEN Strip(SubSeq(s, 1, Len(s) - 1))
    ELSE s

\* the position of the first c in s, 0 when there is none
Find(s, c) == IF \E i \in 1..Len(s) : s[i] = c
              THEN CHOOSE i \in 1..Len(s) : s[i] = c /\ \A j \in 1..(i - 1) : s[j] # c
              ELSE 0

RECURSIVE Split(_, _)
\* str.split(c)
Split(s, c) ==
    LET i == Find(s, c)
    IN  IF i = 0 THEN <<s>>
        ELSE <<SubSeq(s, 1, i - 1)>> \o Split(SubSeq(s, i + 1, Len(s)), c)

AllDigits(s) == s # <<>> /\ \A i \in 1..Len(s) : IsDigit(s[i])

RECURSIVE DigitsVal(_)
DigitsVal(s) == IF s = <<>> THEN 0
                ELSE 10 * DigitsVal(SubSeq(s, 1, Len(s) - 1)) + DigitVal(s[Len(s)])

RECURSIVE Pow10(_)
Pow10(k) == IF k = 0 THEN 1 ELSE 10 * Pow10(k - 1)

Unsigned(s) == IF s # <<>> /\ s[1] \in {"-", "+"} THEN Tail(s) ELSE s

SignOf(s) == IF s # <<>> /\ s[1] = "-" THEN -1 ELSE 1

\* whether int(s) succeeds (no ValueError)
IntOK(s) == AllDigits(Unsigned(Strip(s)))

IntVal(s) == SignOf(Strip(s)) * DigitsVal(Unsigned(Strip(s)))

\* whether float(s) succeeds: [sign] digits [. digits], at least one digit
FloatOK(s) ==
    LET u == Unsigned(Strip(s))
        p == Find(u, ".")
    IN  IF p = 0 THEN AllDigits(u)
        ELSE LET a == SubSeq(u, 1, p - 1)
                 b == SubSeq(u, p + 1, Len(u))
             IN  /\ a \o b # <<>>
                 /\ \A i \in 1..Len(a) : IsDigit(a[i])
                 /\ \A i \in 1..Len(b) : IsDigit(b[i])

FloatVal(s) ==
    LET t == Strip(s)
        u == Unsigned(t)
        p == Find(u, ".")
    IN  IF p = 0 THEN RatInt(SignOf(t) * DigitsVal(u))
        ELSE LET a == SubSeq(u, 1, p - 1)
                 b == SubSeq(u, p + 1, Len(u))
             IN  Rat(SignOf(t) * (DigitsVal(a) * Pow10(Len(b)) + DigitsVal(b)),
                     Pow10(Len(b)))

\* values given as a chainage: a text or a number
Text(s) == [type |-> "str", chars |-> s]

Number(r) == [type |-> "num", val |-> r]

RECURSIVE NatChars(_)
\* str(n) for n >= 0
NatChars(n) == IF n < 10 THEN <<Digits[n + 1]>>
               ELSE NatChars(n \div 10) \o <<Digits[(n % 10) + 1]>>

\* f"{n}" for an integer
IntChars(n) == IF n < 0 THEN <<"-">> \o NatChars(-n) ELSE NatChars(n)

\* f"{n:03d}": zero padded to width 3, the sign counted in the width
Pad03(n) ==
    LET body == NatChars(Abs(n))
        sign == IF n < 0 THEN <<"-">> ELSE <<>>
        fill == Max(0, 3 - Len(body) - Len(sign))
    IN  sign \o [i \in 1..fill |-> "0"] \o body

-----------------------------------------------------------------------------
(* AutoPlotter._parse_station_to_m and _format_m_to_station *)

\* 0.0 on every exception: a non-text argument has no .upper()
_parse_station_to_m(pk_str) ==
    IF pk_str.type # "str" THEN RatInt(0)
    ELSE LET clean_str == Remove(Upper(pk_str.chars), "K")
         IN  IF Find(clean_str, "+") # 0
             THEN LET parts == Split(clean_str, "+")
                  IN  IF IntOK(parts[1]) /\ FloatOK(parts[2])
                      THEN RatAdd(RatInt(IntVal(parts[1]) * 1000), FloatVal(parts[2]))
                      ELSE RatInt(0)
             ELSE IF FloatOK(clean_str) THEN FloatVal(clean_str) ELSE RatInt(0)

\* meters is a rational; the label is text
_format_m_to_station(meters, precision) ==
    LET rounded_m == RoundHalfEven(meters[1], meters[2] * precision) * precision
        km == rounded_m \div 1000
        m == rounded_m % 1000
    IN  <<"K">> \o IntChars(km) \o <<"+">> \o Pad03(m)

-----------------------------------------------------------------------------
(* dxf_handler.RouteCalculator: the arc-length calculator of the plotter.  *)
(* Its vertices are what path flattening returned; the model takes routes  *)
(* whose segment lengths are integers.                                     *)

RECURSIVE CumulativeDists(_)
\* self.dists: [0.0], then one running sum per vertex after the first
CumulativeDists(vertices) ==
    IF Len(vertices) <= 1 THEN <<0>>
    ELSE LET n == Len(vertices)
             before == CumulativeDists(SubSeq(vertices, 1, n - 1))
         IN  Append(before, before[n - 1] + Distance(vertices[n - 1], vertices[n]))

ArcRouteCalculator(vertices) ==
    LET dists == CumulativeDists(vertices)
    IN  [vertices |-> vertices, dists |-> dists, total_length |-> dists[Len(dists)]]

PointRat(p) == <<RatInt(p[1]), RatInt(p[2])>>

\* Vec.lerp: p + (q - p) * ratio
Lerp(p, q, ratio) ==
    <<RatAdd(RatInt(p[1]), RatMul(RatInt(q[1] - p[1]), ratio)),
      RatAdd(RatInt(p[2]), RatMul(RatInt(q[2] - p[2]), ratio))>>

Raised(what) == [err |-> what, location |-> <<>>, angle |-> <<>>]

Info(location, angle) == [err |-> "none", location |-> location, angle |-> angle]

\* the scan stops at the first d >= target
ScanIdx_mutant(dists, target_dist) ==
    IF \E i \in 1..Len(dists) : RatLE(target_dist, RatInt(dists[i]))
    THEN (CHOOSE i \in 1..Len(dists) :
              /\ RatLE(target_dist, RatInt(dists[i]))
              /\ \A j \in 1..(i - 1) : ~RatLE(target_dist, RatInt(dists[j]))) - 1
    ELSE 0

\* the index of the scan "for i, d in enumerate(self.dists): if d > target"
ScanIdx(dists, target_dist) ==
    IF \E i \in 1..Len(dists) : RatLT(target_dist, RatInt(dists[i]))
    THEN (CHOOSE i \in 1..Len(dists) :
              /\ RatLT(target_dist, RatInt(dists[i]))
              /\ \A j \in 1..(i - 1) : ~RatLT(target_dist, RatInt(dists[j]))) - 1
    ELSE 0

get_info_at_end_mutant(r, target_dist) == RatLT(RatInt(r.total_length), target_dist)

\* the test of the first branch of get_info_at
get_info_at_end(r, target_dist) == RatLE(RatInt(r.total_length), target_dist)

\* target_dist is a rational; the result is (location, angle) or an exception
get_info_at(r, target_dist) ==
    LET v == r.vertices
    IN  IF get_info_at_end(r, target_dist)
        THEN IF PyIndexOK(v, -2)
             THEN Info(PointRat(PyIndex(v, -1)), Angle(VSub(PyIndex(v, -1), PyIndex(v, -2))))
             ELSE Raised("IndexError")
        ELSE IF RatLE(target_dist, RatInt(0))
        THEN IF PyIndexOK(v, 1)
             THEN Info(PointRat(PyIndex(v, 0)), Angle(VSub(PyIndex(v, 1), PyIndex(v, 0))))
             ELSE Raised("IndexError")
        ELSE LET idx == ScanIdx(r.dists, target_dist)
             IN  IF ~(PyIndexOK(v, idx - 1) /\ PyIndexOK(v, idx)
                      /\ PyIndexOK(r.dists, idx - 1))
                 THEN Raised("IndexError")
                 ELSE LET p_prev == PyIndex(v, idx - 1)
                          p_next == PyIndex(v, idx)
                          d_prev == PyIndex(r.dists, idx - 1)
                          d_next == PyIndex(r.dists, idx)
                      IN  IF d_next = d_prev THEN Raised("ZeroDivisionError")
                          ELSE Info(Lerp(p_prev, p_next,
                                         RatMul(RatSub(target_dist, RatInt(d_prev)),
                                                <<1, d_next - d_prev>>)),
                                    Angle(VSub(p_next, p_prev)))

-----------------------------------------------------------------------------
(* AutoPlotter.calculate_frames, one loop iteration per step *)

\* the routes handed to the tiler reach 100 * MaxLenUnits length units
MaxLenUnits == 10

\* the model widths tried reach 200 * MaxWidthUnits
MaxWidthUnits == 2

\* no run of the model appends more frames than this
MaxFrames == 12

O0 == <<0, 0>>

StraightRoutes == {<<O0, <<100 * k, 0>>>> : k \in 1..MaxLenUnits}

BentRoutes == {<<O0, <<100 * a, 0>>, <<100 * a, 100 * b>>>> : a \in 1..2, b \in 1..2}

DegenerateRoutes == {<<>>, <<O0>>, <<O0, O0>>}

FrameRoutes == StraightRoutes \cup BentRoutes \cup DegenerateRoutes

ModelWidths == {200 * k : k \in (-1)..MaxWidthUnits}

\* self.overlap in tenths; the constructor sets 0.1
Overlaps == {1, 5}

PK_K0 == Text(<<"K", "0", "+", "0", "0", "0">>)

PK_K2_500 == Text(<<"k", "2", "+", "5", "0", "0">>)

PK_Bad == Text(<<"K", "x">>)

StartPKs == {PK_K0, PK_K2_500, PK_Bad}

\* stands for the literal prefix of the layout names
NamePrefix == <<"Plan">>

\* the advance of current_dist lost
step_dist_mutant(w, o) == 0

\* step_dist = model_width * (1 - self.overlap)
step_dist(w, o) == (w * (10 - o)) \div 10

first_center_mutant(w) == 0

\* current_dist = model_width / 2
first_center(w) == w \div 2

rel_start_of(c) == Max(0, c - model_width \div 2)

rel_end_of(c) == Min(route.total_length, c + model_width \div 2)

base_offset_m == _parse_station_to_m(start_PK)

NewFrame(info) ==
    LET abs_start_m == RatAdd(base_offset_m, RatInt(rel_start_of(current_dist)))
        abs_end_m == RatAdd(base_offset_m, RatInt(rel_end_of(current_dist)))
    IN  [name |-> NamePrefix \o Pad03(frame_idx),
         center |-> info.location,
         rotation |-> info.angle,
         start_station_val |-> abs_start_m,
         end_station_val |-> abs_end_m,
         start_station_label |-> _format_m_to_station(abs_start_m, 10),
         end_station_label |-> _format_m_to_station(abs_end_m, 10)]

Idle == <<>>

\* before the call: the plotter exists, nothing is being computed
InitFrames ==
    /\ pc = "idle"
    /\ route = Idle /\ model_width = 0 /\ overlap = 0 /\ start_PK = Idle
    /\ current_dist = 0 /\ frame_idx = 0 /\ frames = Idle

\* calculate_frames(route, start_PK) is entered: the statements before the loop
CalcFramesEnter ==
    /\ pc = "idle"
    /\ route' \in {ArcRouteCalculator(v) : v \in FrameRoutes}
    /\ model_width' \in ModelWidths
    /\ overlap' \in Overlaps
    /\ start_PK' \in StartPKs
    /\ current_dist' = first_center(model_width')
    /\ frame_idx' = 1
    /\ frames' = <<>>
    /\ pc' = "while"

\* one pass through the body of the while loop, to its break test
CalcFramesBody ==
    /\ pc = "while"
    /\ current_dist < route.total_length
    /\ Len(frames) < MaxFrames
    /\ LET info == get_info_at(route, RatInt(current_dist))
       IN  IF info.err # "none"
           THEN /\ pc' = "raised"
                /\ UNCHANGED <<frames, current_dist, frame_idx>>
           ELSE /\ frames' = Append(frames, NewFrame(info))
                /\ current_dist' = current_dist + step_dist(model_width, overlap)
                /\ frame_idx' = frame_idx + 1
                /\ pc' = IF rel_end_of(current_dist) >= route.total_length
                         THEN "returned" ELSE "while"
    /\ UNCHANGED <<route, model_width, overlap, start_PK>>

\* the while condition fails: return frames
CalcFramesExit ==
    /\ pc = "while"
    /\ ~(current_dist < route.total_length)
    /\ pc' = "returned"
    /\ UNCHANGED frameVars

IdleCalc == kind = Idle /\ entity = Idle /\ calc = Idle /\ answer = Idle

IdleViewport == layouts = Idle /\ target = Idle /\ rotation = Idle

IdleNumbering ==
    /\ doc = Idle /\ x_restrict = Idle /\ y_tolerance = Idle
    /\ sorted_entities = Idle /\ count = Idle /\ saved = Idle

IdleChainage == station_m = Idle /\ label = Idle /\ pk_text = Idle /\ parse_result = Idle

IdleLater == IdleViewport /\ IdleNumbering /\ IdleChainage

IdleDevices ==
    /\ engine = Idle /\ inserts = Idle /\ target_block_names = Idle
    /\ devices = Idle

NextFrames ==
    \/ CalcFramesEnter /\ UNCHANGED calcVars /\ UNCHANGED deviceVars
           /\ UNCHANGED laterVars
    \/ CalcFramesBody /\ UNCHANGED calcVars /\ UNCHANGED deviceVars
           /\ UNCHANGED laterVars
    \/ CalcFramesExit /\ UNCHANGED calcVars /\ UNCHANGED deviceVars
           /\ UNCHANGED laterVars

InitFramesSpec == InitFrames /\ IdleCalc /\ IdleDevices /\ IdleLater

SpecFrames == InitFramesSpec /\ [][NextFrames]_vars

-----------------------------------------------------------------------------
(* Construction of the three route calculators *)

\* grid points have x in 0..MaxX and y in 0..1
MaxX == 2

\* an LWPOLYLINE of the model has at most this many points
MaxVertices == 3

GridPoints == {<<x, y>> : x \in 0..MaxX, y \in 0..1}

PointLists == UNION {[1..n -> GridPoints] : n \in 0..MaxVertices}

\* every segment has an integer length, so that Vec.distance is exact
IntegerLengths(points) ==
    \A i \in 1..(Len(points) - 1) : IsSquare(LenSq(VSub(points[i + 1], points[i])))

Entity(dxftype, points) == [dxftype |-> dxftype, points |-> points]

\* the straight route of the side-determinism scenario
ExampleLine == Entity("LINE", <<O0, <<100, 0>>>>)

\* a bent polyline whose corner vertex is stored twice
RepeatedVertexLine == Entity("LWPOLYLINE", <<O0, <<1, 0>>, <<1, 0>>, <<1, 1>>>>)

Entities ==
    {Entity("LWPOLYLINE", pts) : pts \in PointLists}
        \cup {Entity("LINE", pts) : pts \in [1..2 -> GridPoints]}
        \cup {ExampleLine, RepeatedVertexLine, Entity("TEXT", <<>>)}

\* ezdxf.path.make_path raises TypeError for an entity that is no curve
make_path_ok(e) == e.dxftype \in {"LWPOLYLINE", "LINE"}

\* what list(path.flattening(...)) may hold for a polyline's path: the
\* points themselves; of a path without any segment either its start point
\* or nothing
Flattenings(e) ==
    IF Len(e.points) <= 1 THEN {<<>>, e.points} ELSE {e.points}

Failed(what) == [err |-> what]

\* dxf_handler.RouteCalculator.__init__
RouteCalculator_init(e, vertices) ==
    IF ~make_path_ok(e) THEN Failed("TypeError")
    ELSE [err |-> "none"] @@ ArcRouteCalculator(vertices)

\* Vec3.magnitude_xy: the length of the vector in the xy plane
magnitude_xy(v) == ISqrt(LenSq(v))

\* LegacyRouteCalculator.__init__
LegacyRouteCalculator_init(e, vertices) ==
    IF ~make_path_ok(e) THEN Failed("TypeError")
    ELSE LET dists == CumulativeDists(vertices)
             segments == [i \in 1..(Len(vertices) - 1) |->
                             [p1 |-> vertices[i],
                              p2 |-> vertices[i + 1],
                              len |-> Distance(vertices[i], vertices[i + 1]),
                              start_dist |-> dists[i],
                              vec |-> VSub(vertices[i + 1], vertices[i])]]
         IN  [err |-> "none", vertices |-> vertices, dists |-> dists,
              segments |-> segments, total_length |-> dists[Len(dists)]]

\* RouteCalculator.parse_pk_string: a rational, or the exception raised
parse_pk_string(pk_str) ==
    IF pk_str.type = "num" THEN [err |-> "none", val |-> pk_str.val]
    ELSE IF pk_str.type # "str" THEN Failed("AttributeError")
    ELSE LET clean_str == Remove(Remove(Upper(pk_str.chars), "K"), " ")
         IN  IF Find(clean_str, "+") # 0
             THEN LET parts == Split(clean_str, "+")
                  IN  IF FloatOK(parts[1]) /\ FloatOK(parts[2])
                      THEN [err |-> "none",
                            val |-> RatAdd(RatMul(FloatVal(parts[1]), RatInt(1000)),
                                           FloatVal(parts[2]))]
                      ELSE [err |-> "none", val |-> RatInt(0)]
             ELSE IF FloatOK(clean_str)
                  THEN [err |-> "none", val |-> FloatVal(clean_str)]
                  ELSE [err |-> "none", val |-> RatInt(0)]

\* 'logic_span': 100.0
LogicSpan == 100

\* start_stat = self.base_offset + (i * 100.0), i counted from 0
start_stat_of(base_offset, i) == RatAdd(base_offset, RatInt(i * LogicSpan))

\* device_layout.RouteCalculator.__init__ (the fixed-span calculator)
FixedRouteCalculator_init(e, pk) ==
    LET parsed == parse_pk_string(pk)
    IN  IF parsed.err # "none" THEN Failed(parsed.err)
        ELSE IF e.dxftype \notin {"LWPOLYLINE", "LINE"} THEN Failed("TypeError")
        ELSE LET raw_points == e.points
                 segments == [k \in 1..(Len(raw_points) - 1) |->
                                 LET vec == VSub(raw_points[k + 1], raw_points[k])
                                 IN  [p1 |-> raw_points[k],
                                      p2 |-> raw_points[k + 1],
                                      vec |-> vec,
                                      len_sq |-> vec[1] * vec[1] + vec[2] * vec[2],
                                      start_stat |-> start_stat_of(parsed.val, k - 1),
                                      logic_span |-> LogicSpan]]
             IN  IF segments = <<>> THEN Failed("IndexError")
                 ELSE [err |-> "none", base_offset |-> parsed.val,
                       segments |-> segments,
                       total_length |->
                           RatAdd(segments[Len(segments)].start_stat, RatInt(LogicSpan))]

-----------------------------------------------------------------------------
(* The inverse query project_point *)

\* float('inf')
Inf == <<1, 0>>

\* the point p1 + vec * t, with rational coordinates
PointAt(p1, vec, t) ==
    <<RatAdd(RatInt(p1[1]), RatMul(RatInt(vec[1]), t)),
      RatAdd(RatInt(p1[2]), RatMul(RatInt(vec[2]), t))>>

\* the square of target_point.distance(q) for a rational point q
DistSq(target_point, q) ==
    LET dx == RatSub(RatInt(target_point[1]), q[1])
        dy == RatSub(RatInt(target_point[2]), q[2])
    IN  RatAdd(RatMul(dx, dx), RatMul(dy, dy))

SideOf(cross_product) == IF cross_product > 0 THEN "Left" ELSE "Right"

\* the locals of project_point before its loop; min_dist is kept squared
ProjectStart ==
    [err |-> "none", min_dist_sq |-> Inf, best_station |-> RatInt(0),
     best_side |-> "Center", vec_pt_bound |-> FALSE]

\* one iteration of LegacyRouteCalculator.project_point
LegacyProjectSeg(acc, seg, target_point) ==
    LET seg_len_sq == magnitude_xy(seg.vec)
    IN  IF seg_len_sq = 0 THEN acc
        ELSE LET vec_pt == VSub(target_point, seg.p1)
                 t == Rat(Dot(vec_pt, seg.vec), seg_len_sq)
                 t_clamped == Clamp01(t)
                 dist_sq == DistSq(target_point, PointAt(seg.p1, seg.vec, t_clamped))
             IN  IF RatLT(dist_sq, acc.min_dist_sq)
                 THEN [acc EXCEPT
                          !.min_dist_sq = dist_sq,
                          !.best_station = RatAdd(RatInt(seg.start_dist),
                                                  RatMul(t_clamped, RatInt(seg.len))),
                          !.best_side = SideOf(Cross(seg.vec, vec_pt)),
                          !.vec_pt_bound = TRUE]
                 ELSE [acc EXCEPT !.vec_pt_bound = TRUE]

\* one iteration of the fixed-span RouteCalculator.project_point; vec_pt is
\* assigned in the else branch only and read when the distance improves
FixedProjectSeg(acc, seg, target_point) ==
    LET vec_pt == VSub(target_point, seg.p1)
        t_clamped == IF seg.len_sq = 0 THEN RatInt(0)
                     ELSE Clamp01(Rat(Dot(vec_pt, seg.vec), seg.len_sq))
        bound == acc.vec_pt_bound \/ seg.len_sq # 0
        dist_sq == DistSq(target_point, PointAt(seg.p1, seg.vec, t_clamped))
    IN  IF ~RatLT(dist_sq, acc.min_dist_sq)
        THEN [acc EXCEPT !.vec_pt_bound = bound]
        ELSE IF ~bound THEN [acc EXCEPT !.err = "UnboundLocalError"]
        ELSE [acc EXCEPT
                 !.min_dist_sq = dist_sq,
                 !.best_station = RatAdd(seg.start_stat,
                                         RatMul(t_clamped, RatInt(seg.logic_span))),
                 \* a stale vec_pt meets vec_seg = (0, 0) only: the product is 0
                 !.best_side = SideOf(IF seg.len_sq = 0 THEN 0
                                      ELSE Cross(seg.vec, vec_pt)),
                 !.vec_pt_bound = bound]

RECURSIVE LegacyProjectLoop(_, _, _, _)
LegacyProjectLoop(acc, segments, i, target_point) ==
    IF i > Len(segments) THEN acc
    ELSE LegacyProjectLoop(LegacyProjectSeg(acc, segments[i], target_point),
                           segments, i + 1, target_point)

RECURSIVE FixedProjectLoop(_, _, _, _)
FixedProjectLoop(acc, segments, i, target_point) ==
    IF i > Len(segments) \/ acc.err # "none" THEN acc
    ELSE FixedProjectLoop(FixedProjectSeg(acc, segments[i], target_point),
                          segments, i + 1, target_point)

\* (best_station, min_dist, best_side), min_dist given by its square
Projection(acc) ==
    IF acc.err # "none" THEN Failed(acc.err)
    ELSE [err |-> "none", station |-> acc.best_station,
          offset_sq |-> acc.min_dist_sq, side |-> acc.best_side]

LegacyRouteCalculator_project_point(c, target_point) ==
    Projection(LegacyProjectLoop(ProjectStart, c.segments, 1, target_point))

RouteCalculator_project_point(c, target_point) ==
    Projection(FixedProjectLoop(ProjectStart, c.segments, 1, target_point))

-----------------------------------------------------------------------------
(* Construction and queries as steps *)

PK_None == [type |-> "none"]

PK_Number == Number(RatInt(250))

ConstructorPKs == {PK_K0, PK_K2_500, PK_Bad, PK_Number, PK_None}

QueryPoints ==
    {<<x, y>> : x \in (-1)..(MaxX + 1), y \in (-1)..1} \cup {<<50, 10>>, <<50, -10>>}

\* stations at every half unit from one below 0 to one above the length
QueryStations(c) == {Rat(n, 2) : n \in (-2)..(2 * c.total_length + 2)}

InitRoute ==
    /\ pc = "idle"
    /\ kind = Idle /\ entity = Idle /\ calc = Idle /\ answer = Idle

Built(c) == IF c.err = "none" THEN "built" ELSE "raised"

\* route = RouteCalculator(entity) in dxf_handler
ConstructArc ==
    /\ pc = "idle"
    /\ \E e \in Entities : \E v \in Flattenings(e) :
          /\ IntegerLengths(v)
          /\ kind' = "arc"
          /\ entity' = e
          /\ calc' = RouteCalculator_init(e, v)
          /\ pc' = Built(calc')
    /\ UNCHANGED answer

\* LegacyRouteCalculator(entity)
ConstructLegacy ==
    /\ pc = "idle"
    /\ \E e \in Entities : \E v \in Flattenings(e) :
          /\ IntegerLengths(v)
          /\ kind' = "legacy"
          /\ entity' = e
          /\ calc' = LegacyRouteCalculator_init(e, v)
          /\ pc' = Built(calc')
    /\ UNCHANGED answer

\* RouteCalculator(entity, start_PK) in device_layout
ConstructFixed ==
    /\ pc = "idle"
    /\ \E e \in Entities : \E pk \in ConstructorPKs :
          /\ kind' = "fixed"
          /\ entity' = [dxftype |-> e.dxftype, points |-> e.points, start_PK |-> pk]
          /\ calc' = FixedRouteCalculator_init(e, pk)
          /\ pc' = Built(calc')
    /\ UNCHANGED answer

\* the queries read the calculator and leave it as it is: the model asks one
\* query of each constructed calculator
Query(op, arg, result) == [op |-> op, arg |-> arg, result |-> result]

GetInfoAt ==
    /\ pc = "built" /\ kind = "arc" /\ answer = Idle
    /\ \E s \in QueryStations(calc) :
          answer' = Query("get_info_at", s, get_info_at(calc, s))
    /\ UNCHANGED <<pc, kind, entity, calc>>

LegacyProjectPoint ==
    /\ pc = "built" /\ kind = "legacy" /\ answer = Idle
    /\ \E pt \in QueryPoints :
          answer' = Query("project_point", pt,
                          LegacyRouteCalculator_project_point(calc, pt))
    /\ UNCHANGED <<pc, kind, entity, calc>>

FixedProjectPoint ==
    /\ pc = "built" /\ kind = "fixed" /\ answer = Idle
    /\ \E pt \in QueryPoints :
          answer' = Query("project_point", pt,
                          RouteCalculator_project_point(calc, pt))
    /\ UNCHANGED <<pc, kind, entity, calc>>

IdleFrames ==
    /\ route = Idle /\ model_width = 0 /\ overlap = 0 /\ start_PK = Idle
    /\ current_dist = 0 /\ frame_idx = 0 /\ frames = Idle

NextRoute ==
    \/ ConstructArc /\ UNCHANGED frameVars /\ UNCHANGED deviceVars
           /\ UNCHANGED laterVars
    \/ ConstructLegacy /\ UNCHANGED frameVars /\ UNCHANGED deviceVars
           /\ UNCHANGED laterVars
    \/ ConstructFixed /\ UNCHANGED frameVars /\ UNCHANGED deviceVars
           /\ UNCHANGED laterVars
    \/ GetInfoAt /\ UNCHANGED frameVars /\ UNCHANGED deviceVars
           /\ UNCHANGED laterVars
    \/ LegacyProjectPoint /\ UNCHANGED frameVars /\ UNCHANGED deviceVars
           /\ UNCHANGED laterVars
    \/ FixedProjectPoint /\ UNCHANGED frameVars /\ UNCHANGED deviceVars
           /\ UNCHANGED laterVars

InitRouteSpec == InitRoute /\ IdleFrames /\ IdleDevices /\ IdleLater

SpecRoute == InitRouteSpec /\ [][NextRoute]_vars

-----------------------------------------------------------------------------
(* DeviceLayoutEngine: construction and extract_and_project_devices *)

\* the model's documents hold at most this many INSERT entities
MaxInserts == 3

PK_K0_100 == Text(<<"K", "0", "+", "1", "0", "0">>)

PK_K0_050 == Text(<<"K", "0", "+", "0", "5", "0">>)

\* the centerline polylines of the model: a bent one, and one whose first
\* two vertices coincide
EnginePolylines == {<<O0, <<2, 0>>, <<2, 1>>>>, <<O0, O0, <<2, 0>>>>}

PK_K0_200 == Text(<<"K", "0", "+", "2", "0", "0">>)

\* briges_list: no bridge, one interval given end first, or that interval
\* followed by one whose two ends are the same chainage
BridgeLists ==
    {<<>>, <<<<PK_K0_100, PK_K0_050>>>>,
     <<<<PK_K0_100, PK_K0_050>>, <<PK_K0_200, PK_K0_200>>>>}

RECURSIVE BridgeRanges(_)
\* self.bridge_ranges: each pair parsed and put in ascending order; the
\* arguments of the model are texts, which parse_pk_string never rejects
BridgeRanges(briges_list) ==
    IF briges_list = <<>> THEN <<>>
    ELSE LET s_val == parse_pk_string(briges_list[1][1]).val
             e_val == parse_pk_string(briges_list[1][2]).val
         IN  <<IF RatLT(e_val, s_val) THEN <<e_val, s_val>> ELSE <<s_val, e_val>>>>
                 \o BridgeRanges(Tail(briges_list))

\* DeviceLayoutEngine.__init__ with _init_route: the route is built from the
\* longest LWPOLYLINE of the centerline layer with the default start chainage
DeviceLayoutEngine_init(points, briges_list) ==
    LET r == FixedRouteCalculator_init(Entity("LWPOLYLINE", points), PK_K0)
    IN  IF r.err # "none" THEN Failed(r.err)
        ELSE [err |-> "none", route |-> r, bridge_ranges |-> BridgeRanges(briges_list)]

\* DeviceLayoutEngine.format_station
format_station(station_val) ==
    LET whole == station_val[1] \div station_val[2]
        km == whole \div 1000
        m == whole % 1000
    IN  <<"K">> \o IntChars(km) \o <<"+">> \o Pad03(m)

BlockNames == {"CCTV", "VMS"}

InsertPositions == {<<0, 0>>, <<1, 1>>, <<1, -1>>, <<2, 1>>}

Insert(name, pos) == [name |-> name, insert |-> pos]

InsertLists ==
    UNION {[1..n -> {Insert(b, q) : b \in BlockNames, q \in InsertPositions}] :
               n \in 0..MaxInserts}

NoneValue == [type |-> "None"]

Dict(m) == [type |-> "dict", map |-> m]

AllowLists ==
    {NoneValue, Dict(<<>>), Dict([b \in {"CCTV"} |-> "Camera"]),
     Dict([b \in {"CCTV", "VMS"} |-> IF b = "CCTV" THEN "Camera" ELSE "Sign"])}

\* the truth value Python gives the argument: None and {} are false
Truthy(t) == t.type = "dict" /\ DOMAIN t.map # {}

\* if target_block_names and block_name not in target_block_names.keys(): continue
filtered_out(t, block_name) == Truthy(t) /\ block_name \notin DOMAIN t.map

\* bounds excluded
base_type_mutant(ranges, station) ==
    IF \E i \in 1..Len(ranges) :
           RatLT(ranges[i][1], station) /\ RatLT(station, ranges[i][2])
    THEN "Bridge" ELSE "Road"

\* the base type of a station: 'Bridge' inside some range, bounds included
base_type_of(ranges, station) ==
    IF \E i \in 1..Len(ranges) :
           RatLE(ranges[i][1], station) /\ RatLE(station, ranges[i][2])
    THEN "Bridge" ELSE "Road"

RECURSIVE InsertSorted(_, _)
\* d placed behind every element whose key is not greater than its own
InsertSorted(sorted, d) ==
    IF sorted = <<>> THEN <<d>>
    ELSE IF RatLE(sorted[1].station_val, d.station_val)
    THEN <<sorted[1]>> \o InsertSorted(Tail(sorted), d)
    ELSE <<d>> \o sorted

RECURSIVE sort_mutant(_)
\* equal keys come out in reverse order
sort_mutant(devs) ==
    IF devs = <<>> THEN <<>>
    ELSE LET rest == sort_mutant(Tail(devs))
             before == SelectSeq(rest, LAMBDA d : RatLE(d.station_val, devs[1].station_val))
             after == SelectSeq(rest, LAMBDA d : ~RatLE(d.station_val, devs[1].station_val))
         IN  before \o <<devs[1]>> \o after

RECURSIVE sort_by_station(_)
\* devices.sort(key=lambda d: d.station_val): ascending and stable
sort_by_station(devs) ==
    IF devs = <<>> THEN <<>>
    ELSE InsertSorted(sort_by_station(SubSeq(devs, 1, Len(devs) - 1)), devs[Len(devs)])

\* for i, d in enumerate(devices): d.index = i + 1
Reindexed(devs) == [i \in 1..Len(devs) |-> [devs[i] EXCEPT !.index = i]]

RECURSIVE ExtractLoop(_, _, _, _)
\* the for loop over the inserts from position i on; acc is the devices list.
\* The offset is kept as its square, the coordinates are integers.
ExtractLoop(eng, t, ins, acc) ==
    IF ins = <<>> THEN [err |-> "none", devices |-> acc]
    ELSE LET ent == ins[1]
         IN  IF filtered_out(t, ent.name) THEN ExtractLoop(eng, t, Tail(ins), acc)
             ELSE LET pr == RouteCalculator_project_point(eng.route, ent.insert)
                  IN  IF pr.err # "none" THEN [err |-> pr.err, devices |-> <<>>]
                      ELSE IF t.type = "None"
                      THEN [err |-> "TypeError", devices |-> <<>>]
                      ELSE IF ent.name \notin DOMAIN t.map
                      THEN [err |-> "KeyError", devices |-> <<>>]
                      ELSE ExtractLoop(eng, t, Tail(ins),
                               Append(acc,
                                   [index |-> Len(acc) + 1,
                                    name |-> t.map[ent.name],
                                    name_str |-> ent.name,
                                    station_str |-> format_station(pr.station),
                                    station_val |-> pr.station,
                                    base_type |-> base_type_of(eng.bridge_ranges, pr.station),
                                    side |-> pr.side,
                                    offset_sq |-> pr.offset_sq,
                                    x |-> ent.insert[1],
                                    y |-> ent.insert[2]]))

\* the list returned, or the exception that leaves the call
extract_and_project_devices(eng, ins, t) ==
    LET found == ExtractLoop(eng, t, ins, <<>>)
    IN  IF found.err # "none" THEN found
        ELSE [err |-> "none", devices |-> Reindexed(sort_by_station(found.devices))]

InitDevices ==
    /\ pc = "idle"
    /\ engine = Idle /\ inserts = Idle /\ target_block_names = Idle
    /\ devices = Idle

\* DeviceLayoutEngine(dxf_path, briges_list) on a document with these
\* inserts; the briges_list argument is kept next to the object built from it
EngineInit ==
    /\ pc = "idle"
    /\ \E pts \in EnginePolylines : \E b \in BridgeLists :
          engine' = [briges_list |-> b] @@ DeviceLayoutEngine_init(pts, b)
    /\ inserts' \in InsertLists
    /\ pc' = "engine"
    /\ UNCHANGED <<target_block_names, devices>>

\* engine.extract_and_project_devices(target_block_names)
ExtractDevices ==
    /\ pc = "engine"
    /\ \E t \in AllowLists :
          LET r == extract_and_project_devices(engine, inserts, t)
          IN  /\ target_block_names' = t
              /\ devices' = IF r.err = "none" THEN r.devices ELSE Failed(r.err)
              /\ pc' = IF r.err = "none" THEN "returned" ELSE "raised"
    /\ UNCHANGED <<engine, inserts>>

NextDevices ==
    \/ EngineInit /\ UNCHANGED frameVars /\ UNCHANGED calcVars
           /\ UNCHANGED laterVars
    \/ ExtractDevices /\ UNCHANGED frameVars /\ UNCHANGED calcVars
           /\ UNCHANGED laterVars

InitDevicesSpec == InitDevices /\ IdleFrames /\ IdleCalc /\ IdleLater

SpecDevices == InitDevicesSpec /\ [][NextDevices]_vars

-----------------------------------------------------------------------------
(* DeviceLayoutEngine: _get_layout_rotation and find_best_viewport_rotation *)

\* the model's documents hold at most this many layouts
MaxLayouts == 2

\* a VIEWPORT entity: view_target_point, view_height, the paper width and
\* height of the viewport, and view_twist_angle in degrees
Viewport(center, view_height, width, height, twist) ==
    [dxftype |-> "VIEWPORT", view_target_point |-> center, view_height |-> view_height,
     width |-> width, height |-> height, view_twist_angle |-> twist]

\* 4 wide and 2 high around (1, 0), not twisted
ViewportA == Viewport(<<1, 0>>, 2, 200, 100, 0)

\* 3 long and 1 across around (2, 1), twisted by a quarter turn; its half
\* sizes are no integers, so that no point of the model is on its border,
\* where the rounding of math.radians(90) would decide
ViewportB == Viewport(<<2, 1>>, 1, 300, 100, 90)

\* 2 by 2 around (0, 0), not twisted
ViewportC == Viewport(O0, 2, 100, 100, 0)

OtherEntity == [dxftype |-> "LINE"]

Layout(name, entities) == [name |-> name, entities |-> entities]

\* "Layout1" stands for the second name the source skips, the default
\* layout name of a Chinese AutoCAD
LayoutKinds ==
    {Layout("Model", <<ViewportA>>),
     Layout("Layout1", <<ViewportB>>),
     Layout("Plan1", <<OtherEntity, ViewportA>>),
     Layout("Plan2", <<ViewportB>>),
     Layout("Plan3", <<ViewportA, ViewportC>>)}

LayoutLists == UNION {[1..n -> LayoutKinds] : n \in 0..MaxLayouts}

\* centerlines of the engine: the first segment along x, or along y
ViewportPolylines == {<<O0, <<2, 0>>, <<2, 1>>>>, <<O0, <<0, 1>>, <<2, 1>>>>}

TargetPoints == {<<x, y>> : x \in (-1)..3, y \in (-1)..2}

\* Vec2.rotate(-twist_rad) for a twist of whole quarter turns
RotateBack(v, twist) ==
    CASE twist % 360 = 0 -> v
      [] twist % 360 = 90 -> <<v[2], -v[1]>>
      [] twist % 360 = 180 -> <<-v[1], -v[2]>>
      [] twist % 360 = 270 -> <<-v[2], v[1]>>

\* abs(rel.x) <= width / 2 and abs(rel.y) <= height / 2, with
\* width = height * (vp.dxf.width / vp.dxf.height); both sides doubled
vp_contains(vp, p_target) ==
    LET rel == RotateBack(VSub(p_target, vp.view_target_point), vp.view_twist_angle)
        width == Rat(vp.view_height * vp.width, vp.height)
    IN  /\ RatLE(RatInt(2 * Abs(rel[1])), width)
        /\ 2 * Abs(rel[2]) <= vp.view_height

\* the entities the two loops reach, in their order: those of the layouts
\* that are neither 'Model' nor the skipped default, VIEWPORTs only
RECURSIVE ScannedViewports(_)
ScannedViewports(lays) ==
    IF lays = <<>> THEN <<>>
    ELSE (IF lays[1].name \in {"Model", "Layout1"} THEN <<>>
          ELSE SelectSeq(lays[1].entities, LAMBDA e : e.dxftype = "VIEWPORT"))
             \o ScannedViewports(Tail(lays))

RECURSIVE BestTwist(_, _, _)
\* the loop over the viewports: acc holds found, best_twist and the square
\* of min_dist_to_center
BestTwist(vps, p_target, acc) ==
    IF vps = <<>> THEN acc
    ELSE LET vp == vps[1]
             dist_sq == RatInt(LenSq(VSub(p_target, vp.view_target_point)))
         IN  IF vp_contains(vp, p_target) /\ RatLT(dist_sq, acc.min_dist_sq)
             THEN BestTwist(Tail(vps), p_target,
                            [found |-> TRUE, best_twist |-> vp.view_twist_angle,
                             min_dist_sq |-> dist_sq])
             ELSE BestTwist(Tail(vps), p_target, acc)

\* DeviceLayoutEngine._get_layout_rotation: the angle of the first segment
\* whose station range holds station_val, 0.0 when none does
_get_layout_rotation(eng, station_val) ==
    LET segs == eng.route.segments
        holds(i) == /\ RatLE(segs[i].start_stat, station_val)
                    /\ RatLE(station_val,
                             RatAdd(segs[i].start_stat, RatInt(segs[i].logic_span)))
    IN  IF \E i \in 1..Len(segs) : holds(i)
        THEN Angle(segs[CHOOSE i \in 1..Len(segs) :
                            holds(i) /\ \A j \in 1..(i - 1) : ~holds(j)].vec)
        ELSE Angle(<<0, 0>>)

\* DeviceLayoutEngine.find_best_viewport_rotation: degrees, as a rational
find_best_viewport_rotation(lays, p_target) ==
    LET best == BestTwist(ScannedViewports(lays), p_target,
                          [found |-> FALSE, best_twist |-> 0, min_dist_sq |-> Inf])
    IN  IF best.found THEN RatInt(-best.best_twist) ELSE RatInt(0)

InitViewport ==
    /\ pc = "idle"
    /\ IdleViewport

\* DeviceLayoutEngine(dxf_path, []) on a document with these layouts
ViewportEngineInit ==
    /\ pc = "idle"
    /\ \E pts \in ViewportPolylines :
          engine' = [briges_list |-> <<>>] @@ DeviceLayoutEngine_init(pts, <<>>)
    /\ layouts' \in LayoutLists
    /\ pc' = "engine"
    /\ UNCHANGED <<inserts, target_block_names, devices, target, rotation>>

\* engine.find_best_viewport_rotation(x, y)
FindBestViewportRotation ==
    /\ pc = "engine"
    /\ \E p \in TargetPoints :
          /\ target' = p
          /\ rotation' = find_best_viewport_rotation(layouts, p)
    /\ pc' = "rotated"
    /\ UNCHANGED <<engine, inserts, target_block_names, devices, layouts>>

NextViewport ==
    \/ ViewportEngineInit /\ UNCHANGED <<frameVars, calcVars>>
                          /\ UNCHANGED <<numberVars, chainageVars>>
    \/ FindBestViewportRotation /\ UNCHANGED <<frameVars, calcVars>>
                                /\ UNCHANGED <<numberVars, chainageVars>>

InitViewportSpec ==
    /\ InitViewport /\ IdleFrames /\ IdleCalc /\ IdleDevices
    /\ IdleNumbering /\ IdleChainage

SpecViewport == InitViewportSpec /\ [][NextViewport]_vars

-----------------------------------------------------------------------------
(* FrameAutoNumberer: _get_sorted_frames and renumber_and_save *)

\* the model's documents hold at most this many INSERT entities
MaxDocFrames == 3

TagTuNo == <<"T", "u", "N", "o">>

TagTUNO == <<"T", "U", "N", "O">>

TagTitle == <<"T", "i", "t", "l", "e">>

Attrib(tag, text) == [tag |-> tag, text |-> text]

FrameInsert(pos, attribs) == [insert |-> pos, attribs |-> attribs]

\* a frame block: a title and a TUNo attribute
FrameAt(pos) == FrameInsert(pos, <<Attrib(TagTitle, <<"A">>), Attrib(TagTuNo, <<"9">>)>>)

\* the INSERT entities of the model: frames of three heights within 8 units,
\* a lower one, a frame whose tag is upper case, and two blocks without TUNo
DocEntities ==
    {FrameAt(<<0, 100>>), FrameAt(<<50, 100>>), FrameAt(<<0, 50>>),
     FrameAt(<<50, 96>>), FrameAt(<<0, 92>>),
     FrameInsert(<<50, 100>>, <<Attrib(TagTUNO, <<"7">>), Attrib(TagTitle, <<"B">>)>>),
     FrameInsert(<<50, 50>>, <<>>),
     FrameInsert(<<0, 96>>, <<Attrib(TagTitle, <<"A">>)>>)}

Documents == UNION {[1..n -> DocEntities] : n \in 0..MaxDocFrames}

XRestricts == {NoneValue, Number(0)}

YTolerances == {0, 5}

\* attrib.dxf.tag.upper() == 'TUNO'
is_tuno(attrib) == Upper(attrib.tag) = TagTUNO

\* the position of the first TUNo attribute of the entity, 0 when it has none
tuno_position(e) ==
    IF \E j \in 1..Len(e.attribs) : is_tuno(e.attribs[j])
    THEN CHOOSE j \in 1..Len(e.attribs) :
             is_tuno(e.attribs[j]) /\ \A h \in 1..(j - 1) : ~is_tuno(e.attribs[h])
    ELSE 0

\* the conditions under which the collecting loop appends the entity
is_valid_frame(e, x_r) ==
    /\ Len(e.attribs) # 0
    /\ tuno_position(e) # 0
    /\ ~(x_r.type # "None" /\ e.insert[1] <= x_r.val)

\* valid_frames, as positions in the document
valid_frames_of(d, x_r) ==
    SelectSeq([i \in 1..Len(d) |-> i], LAMBDA i : is_valid_frame(d[i], x_r))

RECURSIVE InsertByKey(_, _, _)
\* i placed behind every element whose key is not greater than its own
InsertByKey(sorted, i, key) ==
    IF sorted = <<>> THEN <<i>>
    ELSE IF key[i] < key[sorted[1]]
    THEN <<i>> \o sorted
    ELSE <<sorted[1]>> \o InsertByKey(Tail(sorted), i, key)

RECURSIVE StableSort(_, _)
\* list.sort(key=...): ascending in the key, elements of equal key in their
\* former order
StableSort(seq, key) ==
    IF seq = <<>> THEN <<>>
    ELSE InsertByKey(StableSort(SubSeq(seq, 1, Len(seq) - 1), key), seq[Len(seq)], key)

\* valid_frames.sort(key=lambda e: e.dxf.insert.y, reverse=True): descending
\* in y, elements of equal y in their former order
sort_by_y_desc(d, seq) == StableSort(seq, [i \in 1..Len(d) |-> -d[i].insert[2]])

\* current_row.sort(key=lambda e: e.dxf.insert.x)
sort_by_x(d, seq) == StableSort(seq, [i \in 1..Len(d) |-> d[i].insert[1]])

\* the frame is compared with the last frame of the row
same_row_mutant(d, current_row, frame, y_tol) ==
    Abs(d[current_row[Len(current_row)]].insert[2] - d[frame].insert[2]) <= y_tol

\* abs(last_y - curr_y) <= y_tolerance, last_y being current_row[0]'s
same_row(d, current_row, frame, y_tol) ==
    Abs(d[current_row[1]].insert[2] - d[frame].insert[2]) <= y_tol

RECURSIVE RowLoop(_, _, _, _, _)
\* for frame in valid_frames[1:], then the last row
RowLoop(d, rest, current_row, sorted_frames, y_tol) ==
    IF rest = <<>> THEN sorted_frames \o sort_by_x(d, current_row)
    ELSE IF same_row(d, current_row, rest[1], y_tol)
    THEN RowLoop(d, Tail(rest), Append(current_row, rest[1]), sorted_frames, y_tol)
    ELSE RowLoop(d, Tail(rest), <<rest[1]>>,
                 sorted_frames \o sort_by_x(d, current_row), y_tol)

\* FrameAutoNumberer._get_sorted_frames
_get_sorted_frames(d, x_r, y_tol) ==
    LET valid_frames == sort_by_y_desc(d, valid_frames_of(d, x_r))
    IN  IF valid_frames = <<>> THEN <<>>
        ELSE RowLoop(d, Tail(valid_frames), <<valid_frames[1]>>, <<>>, y_tol)

\* numbering starts at 0
tuno_text_mutant(idx) == IntChars(idx - 1)

\* str(idx)
tuno_text(idx) == IntChars(idx)

\* the document after the numbering loop: the first TUNo attribute of the
\* k-th sorted entity gets the text str(k)
Renumbered(d, sorted) ==
    [i \in 1..Len(d) |->
        IF \E k \in 1..Len(sorted) : sorted[k] = i
        THEN LET k == CHOOSE k \in 1..Len(sorted) : sorted[k] = i
             IN  [d[i] EXCEPT !.attribs[tuno_position(d[i])].text = tuno_text(k)]
        ELSE d[i]]

InitNumbering ==
    /\ pc = "idle"
    /\ IdleNumbering

\* FrameAutoNumberer(file_path) on a readable DXF file
LoadDocument ==
    /\ pc = "idle"
    /\ doc' \in Documents
    /\ pc' = "loaded"
    /\ UNCHANGED <<x_restrict, y_tolerance, sorted_entities, count, saved>>

\* renumber_and_save(output_path, x_restrict, y_tolerance); saveas may fail
\* with an IOError, which is caught
RenumberAndSave ==
    /\ pc = "loaded"
    /\ \E x_r \in XRestricts : \E y_tol \in YTolerances :
          LET sorted == _get_sorted_frames(doc, x_r, y_tol)
          IN  /\ x_restrict' = x_r
              /\ y_tolerance' = y_tol
              /\ sorted_entities' = sorted
              /\ doc' = Renumbered(doc, sorted)
              /\ count' = Len(sorted)
    /\ saved' \in BOOLEAN
    /\ pc' = "numbered"

NextNumbering ==
    \/ LoadDocument /\ UNCHANGED <<frameVars, calcVars, deviceVars>>
                    /\ UNCHANGED <<viewportVars, chainageVars>>
    \/ RenumberAndSave /\ UNCHANGED <<frameVars, calcVars, deviceVars>>
                       /\ UNCHANGED <<viewportVars, chainageVars>>

InitNumberingSpec ==
    /\ InitNumbering /\ IdleFrames /\ IdleCalc /\ IdleDevices
    /\ IdleViewport /\ IdleChainage

SpecNumbering == InitNumberingSpec /\ [][NextNumbering]_vars

-----------------------------------------------------------------------------
(* Chainage labels: _format_m_to_station, _parse_station_to_m and           *)
(* RouteCalculator.parse_pk_string applied to their arguments               *)

\* the formatted values run from -20 to this many half metres
MaxHalfMeters == 2100

\* two values of more than one kilometre digit
FarMeters == {RatInt(12345), RatInt(123456)}

MeterInputs == {Rat(k, 2) : k \in (-40)..MaxHalfMeters} \cup FarMeters

\* the arguments given to the parsers: labels in both cases of the letter,
\* bare numbers, texts that are no chainage, a number and None
ParserInputs ==
    {PK_K0, PK_K2_500, PK_Bad, PK_Number, PK_None,
     Text(<<"K", "1", "+", "4", "5", "0">>),
     Text(<<"K", "1", "+", "4", "5", "0", ".", "5">>),
     Text(<<"1", "4", "5", "0">>),
     Text(<<"1", "4", "5", "0", ".", "5">>),
     Text(<<>>),
     Text(<<"K">>),
     Text(<<"K", "1", "+">>),
     Text(<<"+", "5">>),
     Text(<<"1", "+", "2", "+", "3">>),
     Text(<<"K", "1", ".", "5", "+", "2", "0", "0">>)}

\* what the two parsers make of one argument
BothParsers(pk) == [dxf |-> _parse_station_to_m(pk), pk |-> parse_pk_string(pk)]

InitChainage ==
    /\ pc = "idle"
    /\ IdleChainage

\* _format_m_to_station(x, precision=10)
FormatStation ==
    /\ pc = "idle"
    /\ \E x \in MeterInputs :
          /\ station_m' = x
          /\ label' = Text(_format_m_to_station(x, 10))
    /\ pc' = "formatted"
    /\ UNCHANGED <<pk_text, parse_result>>

\* the label is handed to both parsers
ParseLabel ==
    /\ pc = "formatted"
    /\ pk_text' = label
    /\ parse_result' = BothParsers(label)
    /\ pc' = "parsed"
    /\ UNCHANGED <<station_m, label>>

\* both parsers applied to an argument of the caller
ParseText ==
    /\ pc = "idle"
    /\ \E pk \in ParserInputs :
          /\ pk_text' = pk
          /\ parse_result' = BothParsers(pk)
    /\ pc' = "parsed"
    /\ UNCHANGED <<station_m, label>>

NextChainage ==
    \/ FormatStation /\ UNCHANGED <<frameVars, calcVars, deviceVars>>
                     /\ UNCHANGED <<viewportVars, numberVars>>
    \/ ParseLabel /\ UNCHANGED <<frameVars, calcVars, deviceVars>>
                  /\ UNCHANGED <<viewportVars, numberVars>>
    \/ ParseText /\ UNCHANGED <<frameVars, calcVars, deviceVars>>
                 /\ UNCHANGED <<viewportVars, numberVars>>

InitChainageSpec ==
    /\ InitChainage /\ IdleFrames /\ IdleCalc /\ IdleDevices
    /\ IdleViewport /\ IdleNumbering

SpecChainage == InitChainageSpec /\ [][NextChainage]_vars

-----------------------------------------------------------------------------
(* Claims about calculate_frames *)

GoodInput == pc # "idle" /\ route.total_length > 0 /\ model_width > 0

\* the covered range of frame k relative to the route's start
RelStart(k) == RatSub(frames[k].start_station_val, base_offset_m)

RelEnd(k) == RatSub(frames[k].end_station_val, base_offset_m)

ExpectedStep == (model_width * (10 - overlap)) \div 10

ExpectedCenter(k) == model_width \div 2 + (k - 1) * ExpectedStep

\* C1: for total_length > 0 and model_width > 0 the returned frames cover
\* [0, total_length] without gaps: the list is not empty, the first range
\* starts at 0, each later range starts no later than the previous one ends,
\* and the last range ends at total_length.
C1_FramesCoverRoute ==
    (pc = "returned" /\ GoodInput) =>
        /\ frames # <<>>
        /\ RelStart(1) = RatInt(0)
        /\ \A k \in 2..Len(frames) : RatLE(RelStart(k), RelEnd(k - 1))
        /\ RelEnd(Len(frames)) = RatInt(route.total_length)

\* C2: for total_length > 0 and model_width > 0 calculate_frames returns,
\* whether or not the step divides the remaining length: no iteration raises
\* or is cut short, every iteration that does not return moves current_dist
\* strictly towards total_length, which bounds it; and a frame whose covered
\* end reaches total_length is the last one generated, the loop stopping
\* right after it.
C2_TerminatesAtCoveringFrame ==
    /\ [](GoodInput =>
            /\ pc # "raised"
            /\ (pc = "while" /\ current_dist < route.total_length) =>
                   Len(frames) < MaxFrames
            /\ \A k \in 1..Len(frames) :
                   RatLE(RatInt(route.total_length), RelEnd(k)) =>
                       (k = Len(frames) /\ pc = "returned"))
    /\ [][(GoodInput /\ pc = "while") =>
              \/ pc' = "returned"
              \/ /\ pc' = "while"
                 /\ current_dist < current_dist'
                 /\ current_dist < route.total_length]_vars

\* witness of C2: a run over several frames whose step does not divide the
\* length left after the first centre has returned with its tail covered
C2_Witness ==
    /\ pc = "returned" /\ GoodInput /\ Len(frames) >= 3
    /\ (route.total_length - model_width \div 2) % ExpectedStep # 0
    /\ RelEnd(Len(frames)) = RatInt(route.total_length)

\* C3: calculate_frames never returns a frame list when model_width <= 0 or
\* total_length <= 0 (it fails with an error instead).
C3_FailsOnBadInput ==
    (pc # "idle" /\ (model_width <= 0 \/ route.total_length <= 0)) => pc # "returned"

\* C4: frame k is named with the ordinal k, is centred at the route point of
\* station model_width/2 + (k-1)*step, and covers
\* [max(0, c - model_width/2), min(total_length, c + model_width/2)] shifted
\* by the parsed start chainage; a route of length 1000 with model_width 400
\* and overlap 0.1 gives the centres 200, 560, 920 and a last end of 1000.
C4_FrameGeometry ==
    pc # "idle" =>
        /\ \A k \in 1..Len(frames) :
            LET c == ExpectedCenter(k)
            IN  /\ frames[k].name = NamePrefix \o Pad03(k)
                /\ (route.vertices \in StraightRoutes /\ c >= 0) =>
                       frames[k].center = <<RatInt(c), RatInt(0)>>
                /\ frames[k].center = get_info_at(route, RatInt(c)).location
                /\ RelStart(k) = RatInt(Max(0, c - model_width \div 2))
                /\ RelEnd(k) = RatInt(Min(route.total_length, c + model_width \div 2))
        /\ (/\ pc = "returned" /\ route.vertices = <<O0, <<1000, 0>>>>
            /\ model_width = 400 /\ overlap = 1) =>
               /\ Len(frames) = 3
               /\ frames[1].center = <<RatInt(200), RatInt(0)>>
               /\ RelStart(1) = RatInt(0) /\ RelEnd(1) = RatInt(400)
               /\ frames[2].center = <<RatInt(560), RatInt(0)>>
               /\ frames[3].center = <<RatInt(920), RatInt(0)>>
               /\ RelEnd(3) = RatInt(1000)

\* witness of C4: the scenario of the claim has returned its three frames,
\* shifted by a start chainage that is not zero
C4_Witness ==
    /\ pc = "returned" /\ route.vertices = <<O0, <<1000, 0>>>>
    /\ model_width = 400 /\ overlap = 1 /\ Len(frames) = 3
    /\ start_PK = PK_K2_500
    /\ frames[3].end_station_val = RatInt(3500)

-----------------------------------------------------------------------------
(* Claims about the route calculators *)

Asked(k, op) == pc = "built" /\ kind = k /\ answer # Idle /\ answer.op = op

\* C5: for a route of at least 2 vertices get_info_at(s) returns the last
\* vertex and the last segment's direction for every s >= total_length, and
\* the first vertex and the first segment's direction for every s <= 0.
C5_ForwardClamping ==
    (Asked("arc", "get_info_at") /\ Len(calc.vertices) >= 2) =>
        LET s == answer.arg
            v == calc.vertices
            n == Len(v)
        IN  /\ RatLE(RatInt(calc.total_length), s) =>
                   answer.result = Info(<<RatInt(v[n][1]), RatInt(v[n][2])>>,
                                        Angle(VSub(v[n], v[n - 1])))
            /\ RatLE(s, RatInt(0)) =>
                   answer.result = Info(<<RatInt(v[1][1]), RatInt(v[1][2])>>,
                                        Angle(VSub(v[2], v[1])))

\* witness of C5: a query beyond the end of a bent route, whose last segment
\* points another way than its first
C5_Witness ==
    /\ Asked("arc", "get_info_at")
    /\ calc.vertices = <<O0, <<1, 0>>, <<1, 1>>>>
    /\ answer.arg = <<5, 2>>
    /\ answer.result = Info(<<RatInt(1), RatInt(1)>>, <<0, 1>>)

\* C6: on the straight route (0,0) -> (L,0), L > 0, the legacy project_point
\* maps a point (x, y) with 0 <= x <= L to station x, offset |y| and side
\* Left when y > 0, Right otherwise.
C6_StraightRouteProjection ==
    (/\ Asked("legacy", "project_point")
     /\ Len(calc.vertices) = 2
     /\ calc.vertices[1] = O0
     /\ calc.vertices[2][1] > 0 /\ calc.vertices[2][2] = 0
     /\ 0 <= answer.arg[1] /\ answer.arg[1] <= calc.vertices[2][1]) =>
        LET x == answer.arg[1]
            y == answer.arg[2]
        IN  answer.result = [err |-> "none", station |-> RatInt(x),
                             offset_sq |-> RatInt(y * y),
                             side |-> IF y > 0 THEN "Left" ELSE "Right"]

\* C7: no calculator is handed out for an unsupported entity type, for fewer
\* than 2 vertices or for a route of zero length: construction raises.
C7_ConstructionRejectsDegenerate ==
    pc = "built" =>
        /\ entity.dxftype \in {"LWPOLYLINE", "LINE"}
        /\ Len(entity.points) >= 2
        /\ \E i \in 1..(Len(entity.points) - 1) : entity.points[i] # entity.points[i + 1]
        /\ calc.total_length # (IF kind = "fixed" THEN RatInt(0) ELSE 0)
        /\ kind \in {"legacy", "fixed"} => calc.segments # <<>>

\* the value each start chainage of the model stands for
ExpectedBase(pk) ==
    CASE pk = PK_K0 -> RatInt(0)
      [] pk = PK_K2_500 -> RatInt(2500)
      [] pk = PK_Number -> RatInt(250)
      [] pk = PK_Bad -> RatInt(0)

\* C8: in the fixed-span calculator segment i (from 0) starts at
\* base_chainage + i*100 and spans 100 whatever its Euclidean length, and
\* total_length is (segment count) * 100 for every start chainage given to
\* the constructor.
C8_FixedSpanStations ==
    (pc = "built" /\ kind = "fixed") =>
        LET base == ExpectedBase(entity.start_PK)
            n == Len(calc.segments)
        IN  /\ n = Len(entity.points) - 1
            /\ \A i \in 1..n :
                  /\ calc.segments[i].start_stat = RatAdd(base, RatInt((i - 1) * LogicSpan))
                  /\ calc.segments[i].logic_span = LogicSpan
            /\ calc.total_length = RatInt(n * LogicSpan)

-----------------------------------------------------------------------------
(* Claims about extract_and_project_devices *)

DeviceKey(d) == <<d.name_str, d.x, d.y>>

InsertKey(e) == <<e.name, e.insert[1], e.insert[2]>>

Keys(seq, KeyOf(_)) == [i \in 1..Len(seq) |-> KeyOf(seq[i])]

\* the station the engine's route gives an INSERT
InsertStation(e) == RouteCalculator_project_point(engine.route, e.insert).station

\* the INSERTs whose block name is a key of the allow-list, in document order
AllowedInserts ==
    SelectSeq(inserts, LAMBDA e : e.name \in DOMAIN target_block_names.map)

\* C9: the returned list is in non-decreasing station_val order, devices of
\* equal station keep their document order, and the k-th element has index k.
C9_SortedStableReindexed ==
    pc = "returned" =>
        /\ \A k \in 1..Len(devices) : devices[k].index = k
        /\ \A k \in 1..(Len(devices) - 1) :
               RatLE(devices[k].station_val, devices[k + 1].station_val)
        /\ \A k \in 1..Len(devices) :
               LET v == devices[k].station_val
               IN  Keys(SelectSeq(devices, LAMBDA d : d.station_val = v), DeviceKey)
                     = Keys(SelectSeq(AllowedInserts, LAMBDA e : InsertStation(e) = v),
                            InsertKey)

\* witness of C9: three devices returned, the two of station 50 behind the
\* one of station 200 in the document and in document order in the result
C9_Witness ==
    /\ pc = "returned" /\ Len(devices) = 3
    /\ inserts = <<Insert("CCTV", <<2, 1>>), Insert("VMS", <<1, -1>>),
                   Insert("CCTV", <<1, 1>>)>>
    /\ devices[1].name_str = "VMS" /\ devices[1].station_val = RatInt(50)
    /\ devices[2].name_str = "CCTV" /\ devices[2].station_val = RatInt(50)
    /\ devices[3].station_val = RatInt(200)

\* every segment of the engine's route has two distinct end points
RouteWellFormed ==
    \A i \in 1..Len(engine.route.segments) : engine.route.segments[i].len_sq # 0

\* C10: with an allow-list the result holds exactly one device per INSERT
\* whose block name is a key of the list, named by the mapped display name,
\* and none for other block names; with no allow-list (None) every INSERT is
\* extracted and the call completes (stated for routes on which the
\* projection itself cannot fail).
C10_AllowListFiltering ==
    /\ (pc = "returned" /\ target_block_names.type = "dict") =>
           /\ \A k \in 1..Len(devices) :
                  /\ devices[k].name_str \in DOMAIN target_block_names.map
                  /\ devices[k].name = target_block_names.map[devices[k].name_str]
           /\ \A key \in {InsertKey(inserts[i]) : i \in 1..Len(inserts)}
                      \cup {DeviceKey(devices[k]) : k \in 1..Len(devices)} :
                  Cardinality({k \in 1..Len(devices) : DeviceKey(devices[k]) = key})
                    = Cardinality({i \in 1..Len(AllowedInserts) :
                                       InsertKey(AllowedInserts[i]) = key})
    /\ (/\ pc \in {"returned", "raised"}
        /\ target_block_names.type = "None"
        /\ RouteWellFormed) =>
           /\ pc = "returned"
           /\ Len(devices) = Len(inserts)

\* the chainage each bridge text of the model stands for, in metres
BridgeChainage(pk) ==
    CASE pk = PK_K0_050 -> RatInt(50)
      [] pk = PK_K0_100 -> RatInt(100)
      [] pk = PK_K0_200 -> RatInt(200)

\* s lies between the two ends of some interval of the list, ends included,
\* whichever end came first
InSomeInterval(briges_list, s) ==
    \E i \in 1..Len(briges_list) :
        LET a == BridgeChainage(briges_list[i][1])
            b == BridgeChainage(briges_list[i][2])
        IN  \/ RatLE(a, s) /\ RatLE(s, b)
            \/ RatLE(b, s) /\ RatLE(s, a)

\* C11: a device's base_type is 'Bridge' exactly when its station lies in
\* min(a,b)..max(a,b), bounds included, for at least one configured interval
\* (a,b); otherwise it is 'Road'.
C11_BridgeClassification ==
    pc = "returned" =>
        \A k \in 1..Len(devices) :
            devices[k].base_type =
                IF InSomeInterval(engine.briges_list, devices[k].station_val)
                THEN "Bridge" ELSE "Road"

\* witness of C11: with the intervals (100, 50) and (200, 200) a device at
\* station 0 is on the road, one at 50 and one at 200 are on a bridge
C11_Witness ==
    /\ pc = "returned" /\ Len(devices) = 3
    /\ engine.briges_list = <<<<PK_K0_100, PK_K0_050>>, <<PK_K0_200, PK_K0_200>>>>
    /\ devices[1].station_val = RatInt(0) /\ devices[1].base_type = "Road"
    /\ devices[2].station_val = RatInt(50) /\ devices[2].base_type = "Bridge"
    /\ devices[3].station_val = RatInt(200) /\ devices[3].base_type = "Bridge"

\* a feature the call can turn into a device: its block name has a display
\* name and its projection completes
WellFormed(e) ==
    /\ target_block_names.type = "dict"
    /\ e.name \in DOMAIN target_block_names.map
    /\ RouteCalculator_project_point(engine.route, e.insert).err = "none"

\* C12: a feature whose processing fails never aborts the call: the call
\* returns, with one device for every well-formed feature.
C12_SkipAndContinue ==
    pc \in {"returned", "raised"} =>
        /\ pc = "returned"
        /\ target_block_names.type = "dict" =>
               Len(devices) = Cardinality({i \in 1..Len(inserts) : WellFormed(inserts[i])})

-----------------------------------------------------------------------------
(* Claims about FrameAutoNumberer *)

\* the tags that name the TUNo attribute, whatever the case of their letters
TUNoTags == {TagTuNo, TagTUNO}

\* positions in the document d of the INSERTs that have a TUNo attribute and,
\* when x_r is given, an insert X greater than x_r
Eligible(d, x_r) ==
    {i \in 1..Len(d) :
        /\ \E j \in 1..Len(d[i].attribs) : d[i].attribs[j].tag \in TUNoTags
        /\ x_r.type = "None" \/ d[i].insert[1] > x_r.val}

FrameX(k) == doc[sorted_entities[k]].insert[1]

FrameY(k) == doc[sorted_entities[k]].insert[2]

\* the row of the k-th frame when the rows start at the positions in starts
RowOf(starts, k) == 1 + Cardinality({b \in starts : b <= k})

\* the Y of the first frame scanned into a row: the greatest of the row
RowRefY(starts, r) ==
    LET ys == {FrameY(k) : k \in {h \in 1..Len(sorted_entities) : RowOf(starts, h) = r}}
    IN  CHOOSE y \in ys : \A z \in ys : z <= y

\* C13: the sorted frames are a permutation of the eligible frames made of
\* consecutive rows; a frame is in a row iff its Y is within y_tolerance of
\* the Y of the row's first frame in descending-Y scan, frames further down
\* start later rows, and each row is in ascending X.  The frames (0,100),
\* (50,100), (0,50) with tolerance 5 come out in that order.
C13_ReadingOrder ==
    pc = "numbered" =>
        LET N == Len(sorted_entities)
        IN  /\ {sorted_entities[k] : k \in 1..N} = Eligible(doc, x_restrict)
            /\ N = Cardinality(Eligible(doc, x_restrict))
            /\ \E starts \in SUBSET (2..N) :
                  /\ \A k \in 1..(N - 1) :
                        RowOf(starts, k) = RowOf(starts, k + 1) => FrameX(k) <= FrameX(k + 1)
                  /\ \A k \in 1..N :
                        RowRefY(starts, RowOf(starts, k)) - FrameY(k) <= y_tolerance
                  /\ \A j, k \in 1..N :
                        RowOf(starts, j) < RowOf(starts, k) =>
                            RowRefY(starts, RowOf(starts, j)) - FrameY(k) > y_tolerance
            /\ (/\ N = 3 /\ y_tolerance = 5
                /\ {doc[sorted_entities[k]].insert : k \in 1..N}
                      = {<<0, 100>>, <<50, 100>>, <<0, 50>>}) =>
                   [k \in 1..N |-> doc[sorted_entities[k]].insert]
                      = <<(<<0, 100>>), (<<50, 100>>), (<<0, 50>>)>>

\* witness of C13: frames at heights 92, 96 and 100 in the document, with
\* tolerance 5; the one at 92 is within 5 of 96 but not of the row's first
C13_Witness ==
    /\ pc = "numbered" /\ y_tolerance = 5 /\ x_restrict = NoneValue
    /\ [i \in 1..Len(doc) |-> doc[i].insert] = <<(<<0, 92>>), (<<50, 96>>), (<<0, 100>>)>>
    /\ sorted_entities = <<3, 2, 1>>

\* the text of the first TUNo attribute of an entity
TUNoText(e) ==
    LET j == CHOOSE j \in 1..Len(e.attribs) :
                 /\ e.attribs[j].tag \in TUNoTags
                 /\ \A h \in 1..(j - 1) : e.attribs[h].tag \notin TUNoTags
    IN  e.attribs[j].text

\* C14: renumber_and_save sets the TUNo text of the eligible frames to
\* '1'..'N' in reading order and returns N; every other frame, and every
\* attribute that is not TUNo, keeps what it had.
C14_RenumberEffect ==
    [][(pc = "loaded" /\ pc' = "numbered") =>
          LET N == Len(sorted_entities')
              E == Eligible(doc, x_restrict')
          IN  /\ count' = N
              /\ N = Cardinality(E)
              /\ {sorted_entities'[k] : k \in 1..N} = E
              /\ \A k \in 1..N : TUNoText(doc'[sorted_entities'[k]]) = <<Digits[k + 1]>>
              /\ Len(doc') = Len(doc)
              /\ \A i \in 1..Len(doc) :
                    /\ i \notin E => doc'[i] = doc[i]
                    /\ doc'[i].insert = doc[i].insert
                    /\ Len(doc'[i].attribs) = Len(doc[i].attribs)
                    /\ \A j \in 1..Len(doc[i].attribs) :
                          /\ doc'[i].attribs[j].tag = doc[i].attribs[j].tag
                          /\ doc[i].attribs[j].tag \notin TUNoTags =>
                                 doc'[i].attribs[j] = doc[i].attribs[j]]_vars

\* witness of C14: with x_restrict 0 the frame at X = 0 keeps its TUNo '9',
\* the two at X = 50 are numbered 1 (upper row) and 2
C14_Witness ==
    /\ pc = "numbered" /\ x_restrict = Number(0) /\ y_tolerance = 0 /\ count = 2
    /\ doc = <<FrameAt(<<0, 100>>),
               FrameInsert(<<50, 96>>, <<Attrib(TagTitle, <<"A">>), Attrib(TagTuNo, <<"2">>)>>),
               FrameInsert(<<50, 100>>, <<Attrib(TagTUNO, <<"1">>), Attrib(TagTitle, <<"B">>)>>)>>

-----------------------------------------------------------------------------
(* Claims about the chainage labels *)

\* round(x/10)*10 for x = n/d >= 0: the multiple of 10 nearest to x, the
\* even multiple when x is half way between two
NearestTen(x) ==
    LET n == x[1]
        d == x[2]
        q == CHOOSE q \in 0..(n \div (10 * d) + 1) :
                 /\ Abs(10 * q * d - n) <= 5 * d
                 /\ Abs(10 * q * d - n) = 5 * d => q % 2 = 0
    IN  10 * q

\* K<km>+<three digits>
IsLabel(chars) ==
    LET p == Find(chars, "+")
    IN  /\ Len(chars) >= 6
        /\ chars[1] = "K"
        /\ p = Len(chars) - 3
        /\ \A i \in 2..Len(chars) : i # p => IsDigit(chars[i])

\* C15: for x >= 0 the label of _format_m_to_station(x, 10) has the form
\* K<km>+<three-digit metres>, and both parsers read round(x/10)*10 from it.
C15_ChainageRoundTrip ==
    (pc = "parsed" /\ station_m # Idle /\ station_m[1] >= 0) =>
        /\ IsLabel(label.chars)
        /\ parse_result.dxf = RatInt(NearestTen(station_m))
        /\ parse_result.pk = [err |-> "none", val |-> RatInt(NearestTen(station_m))]

\* witness of C15: 995 is half way between 990 and 1000 and goes to the even
\* multiple, which carries into the kilometres
C15_Witness ==
    /\ pc = "parsed" /\ station_m = RatInt(995)
    /\ label = Text(<<"K", "1", "+", "0", "0", "0">>)
    /\ parse_result.dxf = RatInt(1000)

\* what the claim gives for each well-formed argument of the model; every
\* other argument is malformed
WellFormedChainage(pk) ==
    CASE pk = PK_K0 -> RatInt(0)
      [] pk = PK_K2_500 -> RatInt(2500)
      [] pk = Text(<<"K", "1", "+", "4", "5", "0">>) -> RatInt(1450)
      [] pk = Text(<<"K", "1", "+", "4", "5", "0", ".", "5">>) -> Rat(2901, 2)
      [] pk = Text(<<"1", "4", "5", "0">>) -> RatInt(1450)
      [] pk = Text(<<"1", "4", "5", "0", ".", "5">>) -> Rat(2901, 2)
      [] OTHER -> RatInt(0)

\* C16: neither parser ever raises; K<int>+<number> gives int*1000 + number,
\* a bare number itself, and every other argument (empty text, extra '+'
\* parts, a value that is no text) gives 0.0.
C16_LenientParsing ==
    (pc = "parsed" /\ station_m = Idle) =>
        /\ parse_result.dxf = WellFormedChainage(pk_text)
        /\ parse_result.pk = [err |-> "none", val |-> WellFormedChainage(pk_text)]

-----------------------------------------------------------------------------
(* Further claims about the route calculators *)

\* segment i of the calculator runs from vertex i to vertex i + 1, from
\* station dists[i] to station dists[i + 1]
SegStart(i) == calc.dists[i]

SegEnd(i) == calc.dists[i + 1]

\* C17: for 0 < s < total_length get_info_at(s) takes the first segment
\* whose cumulative end station is greater than s, returns the point at
\* ratio (s - segStart)/(segEnd - segStart) on it and that segment's angle;
\* segEnd - segStart is not zero, also with repeated vertices and with s on
\* a vertex.
C17_ForwardInterior ==
    (/\ Asked("arc", "get_info_at")
     /\ RatLT(RatInt(0), answer.arg)
     /\ RatLT(answer.arg, RatInt(calc.total_length))) =>
        LET s == answer.arg
            v == calc.vertices
        IN  /\ answer.result.err = "none"
            /\ \E i \in 1..(Len(v) - 1) :
                  /\ RatLT(s, RatInt(SegEnd(i)))
                  /\ \A j \in 1..(i - 1) : RatLE(RatInt(SegEnd(j)), s)
                  /\ SegEnd(i) - SegStart(i) # 0
                  /\ LET ratio == Rat(s[1] - SegStart(i) * s[2],
                                      s[2] * (SegEnd(i) - SegStart(i)))
                     IN  /\ answer.result.location =
                               <<RatAdd(RatInt(v[i][1]), RatMul(RatInt(v[i + 1][1] - v[i][1]), ratio)),
                                 RatAdd(RatInt(v[i][2]), RatMul(RatInt(v[i + 1][2] - v[i][2]), ratio))>>
                         /\ answer.result.angle = Angle(VSub(v[i + 1], v[i]))

\* witness of C17: station 1 is on the corner vertex stored twice; the
\* answer is that vertex, with the angle of the segment that leaves it
C17_Witness ==
    /\ Asked("arc", "get_info_at")
    /\ calc.vertices = RepeatedVertexLine.points
    /\ answer.arg = RatInt(1)
    /\ answer.result = Info(<<RatInt(1), RatInt(0)>>, <<0, 1>>)

\* a projection query was answered by a calculator with segments
Projected == pc = "built" /\ kind \in {"legacy", "fixed"} /\ answer # Idle

\* the segments of the calculator that have two distinct ends
ProperSegs == {i \in 1..Len(calc.segments) : LenSq(calc.segments[i].vec) # 0}

\* where the foot of the perpendicular from pt lies on segment i, as a
\* fraction of the segment, kept within the segment
FootRatio(i, pt) ==
    LET seg == calc.segments[i]
        t == Rat(Dot(VSub(pt, seg.p1), seg.vec), LenSq(seg.vec))
    IN  IF RatLT(t, RatInt(0)) THEN RatInt(0)
        ELSE IF RatLT(RatInt(1), t) THEN RatInt(1) ELSE t

\* the square of the distance from pt to segment i
SegDistSq(i, pt) ==
    LET seg == calc.segments[i]
        t == FootRatio(i, pt)
        dx == RatSub(RatInt(pt[1]), RatAdd(RatInt(seg.p1[1]), RatMul(t, RatInt(seg.vec[1]))))
        dy == RatSub(RatInt(pt[2]), RatAdd(RatInt(seg.p1[2]), RatMul(t, RatInt(seg.vec[2]))))
    IN  RatAdd(RatMul(dx, dx), RatMul(dy, dy))

\* the station of that foot: arc length in the legacy calculator, 100 per
\* segment in the fixed-span one
SegStation(i, pt) ==
    LET seg == calc.segments[i]
    IN  IF kind = "legacy"
        THEN RatAdd(RatInt(seg.start_dist), RatMul(FootRatio(i, pt), RatInt(seg.len)))
        ELSE RatAdd(seg.start_stat, RatMul(FootRatio(i, pt), RatInt(100)))

SegSide(i, pt) ==
    LET seg == calc.segments[i]
    IN  IF Cross(seg.vec, VSub(pt, seg.p1)) > 0 THEN "Left" ELSE "Right"

\* the segments at the least distance from pt
Nearest(pt) ==
    {i \in ProperSegs : \A j \in ProperSegs : RatLE(SegDistSq(i, pt), SegDistSq(j, pt))}

\* C18: when several segments are at the same least distance from the query
\* point, project_point reports the station and the side of the first of
\* them in route order.
C18_FirstNearestWins ==
    (Projected /\ Cardinality(Nearest(answer.arg)) >= 2) =>
        LET pt == answer.arg
            first == CHOOSE i \in Nearest(pt) : \A j \in Nearest(pt) : i <= j
        IN  /\ answer.result.err = "none"
            /\ answer.result.station = SegStation(first, pt)
            /\ answer.result.side = SegSide(first, pt)

\* the calculator without its zero-length segments
WithoutZeroLength(c) ==
    [c EXCEPT !.segments = SelectSeq(c.segments, LAMBDA seg : LenSq(seg.vec) # 0)]

\* C19: on a route with a segment whose two ends coincide project_point
\* completes, the zero-length segment supplies nothing of the result (the
\* result is that of the route without it), and the side is Left or Right.
C19_ZeroLengthSkipped ==
    (Projected /\ \E i \in 1..Len(calc.segments) : LenSq(calc.segments[i].vec) = 0) =>
        /\ answer.result.err = "none"
        /\ answer.result.side \in {"Left", "Right"}
        /\ answer.result =
              IF kind = "legacy"
              THEN LegacyRouteCalculator_project_point(WithoutZeroLength(calc), answer.arg)
              ELSE RouteCalculator_project_point(WithoutZeroLength(calc), answer.arg)

-----------------------------------------------------------------------------
(* Claims about the viewport rotation *)

\* the viewports of the plot layouts of the document
PlotViewports ==
    UNION {{layouts[i].entities[j] :
                  j \in {k \in 1..Len(layouts[i].entities) :
                            layouts[i].entities[k].dxftype = "VIEWPORT"}} :
              i \in {h \in 1..Len(layouts) : layouts[h].name \notin {"Model", "Layout1"}}}

\* the point lies in the rectangle the viewport shows: view_height high,
\* view_height * width / height wide, turned about its centre by the twist
Shows(vp, p) ==
    LET dx == Abs(p[1] - vp.view_target_point[1])
        dy == Abs(p[2] - vp.view_target_point[2])
        along == IF vp.view_twist_angle \in {0, 180} THEN dx ELSE dy
        across == IF vp.view_twist_angle \in {0, 180} THEN dy ELSE dx
    IN  /\ 2 * along * vp.height <= vp.view_height * vp.width
        /\ 2 * across <= vp.view_height

\* the direction of the first segment whose station range holds s, the
\* direction of angle 0 when there is none
TangentAt(s) ==
    LET segs == engine.route.segments
        in == {i \in 1..Len(segs) :
                  /\ RatLE(segs[i].start_stat, s)
                  /\ RatLE(s, RatAdd(segs[i].start_stat, RatInt(100)))}
    IN  IF in = {} THEN <<1, 0>>
        ELSE Angle(segs[CHOOSE i \in in : \A j \in in : i <= j].vec)

\* C20: find_best_viewport_rotation returns the rotation of a viewport that
\* contains the point when there is one; otherwise it returns the rotation
\* of the route's tangent at the device's station, the angle that
\* _get_layout_rotation reports.  Of the directions of the model only the
\* one along x has an angle, 0, that a number of degrees can equal.
C20_ViewportRotation ==
    pc = "rotated" =>
        LET showing == {vp \in PlotViewports : Shows(vp, target)}
            station == RouteCalculator_project_point(engine.route, target).station
        IN  IF showing # {}
            THEN \E vp \in showing : rotation = RatInt(-vp.view_twist_angle)
            ELSE /\ TangentAt(station) = _get_layout_rotation(engine, station)
                 /\ rotation = RatInt(0) /\ TangentAt(station) = <<1, 0>>

====
